---- MODULE Spec2Model ----
(* Model of the muse-pipeline FastAPI service                                *)
(* (src/archive/services/pipeline/app/main.py).                              *)
(*                                                                           *)
(* The service is an application object with two registered routes and two   *)
(* async handlers.  A client sends requests; the event loop holds the        *)
(* requests that were received and not yet answered (pending) and answers    *)
(* them one at a time in any order; log records every completed exchange.    *)
(* JSON values are typed: [t |-> type, v |-> literal text].                  *)
EXTENDS Naturals, Sequences, FiniteSets, TLC

VARIABLES routes, pydantic, pending, log, nextId

vars == <<routes, pydantic, pending, log, nextId>>

(* ------------------------------------------------------------------ bounds *)

\* Number of requests a client sends in one behaviour.
MaxRequests == 3

(* ------------------------------------------------------------- JSON values *)

Str(s) == [t |-> "str", v |-> s]
Int(s) == [t |-> "int", v |-> s]
Null == [t |-> "null", v |-> "null"]
Absent == [t |-> "absent", v |-> ""]

UrlX == "http://x/doc.pdf"
UrlY == "http://y/d.txt"

\* Request bodies the client may post: a JSON object with the keys
\* document_url and format, each possibly absent.
Bodies ==
  { [document_url |-> Str(UrlX), format |-> Absent],
    [document_url |-> Str(UrlY), format |-> Absent],
    [document_url |-> Str(UrlX), format |-> Str("pdf")],
    [document_url |-> Int("123"), format |-> Absent],
    [document_url |-> Null, format |-> Absent],
    [document_url |-> Absent, format |-> Str("pdf")] }

NoBody == [document_url |-> Absent, format |-> Absent]

\* What a client may send: the two registered routes, a registered path with
\* the other method, and the status and cancel paths the source registers no
\* route for.
Requests ==
  { [method |-> "GET", path |-> p, body |-> NoBody] :
      p \in {"/health", "/convert", "/status/j1"} }
  \cup {[method |-> "POST", path |-> "/cancel/j1", body |-> NoBody]}
  \cup {[method |-> "POST", path |-> "/convert", body |-> b] : b \in Bodies}

\* The major version of the installed pydantic; the source pins none.
PydanticVersions == {1, 2}

(* ------------------------------------------------------- the application *)

\* app = FastAPI(...) after the two decorators ran.
AppRoutes ==
  { [method |-> "GET", path |-> "/health", endpoint |-> "health"],
    [method |-> "POST", path |-> "/convert", endpoint |-> "convert"] }

\* Mutant of ConvertRequest: the field has a default, so nothing is rejected.
ConvertRequestOptional(body) ==
  IF body.document_url.t = "str"
    THEN [ok |-> TRUE, document_url |-> body.document_url, error |-> ""]
    ELSE IF body.document_url.t = "int" /\ pydantic = 1
      THEN [ok |-> TRUE, document_url |-> Str(body.document_url.v), error |-> ""]
      ELSE [ok |-> TRUE, document_url |-> Str(""), error |-> ""]

\* class ConvertRequest(BaseModel): document_url: str
\* The parsed model, or the violated constraint.  Unknown keys (format) are
\* ignored.  pydantic 1 coerces an int to its decimal string, pydantic 2
\* rejects it.
ConvertRequest(body) ==
  IF body.document_url.t = "str"
    THEN [ok |-> TRUE, document_url |-> body.document_url, error |-> ""]
    ELSE IF body.document_url.t = "int" /\ pydantic = 1
      THEN [ok |-> TRUE, document_url |-> Str(body.document_url.v), error |-> ""]
      ELSE IF body.document_url.t = "absent"
        THEN [ok |-> FALSE, document_url |-> Absent, error |-> "missing"]
        ELSE [ok |-> FALSE, document_url |-> Absent, error |-> "not_a_string"]

\* Mutant of health: the answer depends on the requests in flight.
healthSaturated ==
  IF Cardinality(pending) > 1
    THEN [status |-> 503, body |-> [status |-> "busy", service |-> "pipeline"]]
    ELSE [status |-> 200, body |-> [status |-> "ok", service |-> "pipeline"]]

\* async def health(): return {"status": "ok", "service": "pipeline"}
\* (FastAPI answers 200 when the decorator names no status code.)
health ==
  [status |-> 200, body |-> [status |-> "ok", service |-> "pipeline"]]

\* Mutants of convert: another status code, an issued identifier, a
\* capacity check, a value kept from an earlier call.
convertAccepted(req) ==
  [status |-> 202,
   body |-> [status |-> "ok",
             message |-> "conversion endpoint placeholder",
             document_url |-> req.document_url]]

convertWithJobId(req) ==
  [status |-> 200,
   body |-> [status |-> "ok",
             message |-> "conversion endpoint placeholder",
             document_url |-> req.document_url,
             job_id |-> Len(log) + 1]]

convertBackpressure(req) ==
  IF Len(log) >= 2
    THEN [status |-> 429, body |-> [detail |-> "capacity exceeded"]]
    ELSE [status |-> 200,
          body |-> [status |-> "ok",
                    message |-> "conversion endpoint placeholder",
                    document_url |-> req.document_url]]

convertStale(req) ==
  [status |-> 200,
   body |-> [status |-> "ok",
             message |-> "conversion endpoint placeholder",
             document_url |-> IF Len(log) = 0 THEN req.document_url
                              ELSE Str(UrlX)]]

\* async def convert(req): return {"status": "ok", "message": "conversion
\* endpoint placeholder", "document_url": req.document_url}
convert(req) ==
  [status |-> 200,
   body |-> [status |-> "ok",
             message |-> "conversion endpoint placeholder",
             document_url |-> req.document_url]]

\* The framework's answers for a request no handler runs for.
ValidationErrorResponse(error) == [status |-> 422, body |-> [detail |-> error]]
NotFoundResponse == [status |-> 404, body |-> [detail |-> "Not Found"]]
MethodNotAllowedResponse ==
  [status |-> 405, body |-> [detail |-> "Method Not Allowed"]]

\* Mutant of RouteFor: an unknown path falls through to health.
RouteForCatchAll(method, path) ==
  IF \E r \in routes : r.path = path /\ r.method = method
    THEN (CHOOSE r \in routes : r.path = path /\ r.method = method).endpoint
    ELSE IF \E r \in routes : r.path = path
      THEN "405"
      ELSE "health"

\* Route lookup over the registered routes: the endpoint, or why there is none.
RouteFor(method, path) ==
  IF \E r \in routes : r.path = path /\ r.method = method
    THEN (CHOOSE r \in routes : r.path = path /\ r.method = method).endpoint
    ELSE IF \E r \in routes : r.path = path
      THEN "405"
      ELSE "404"

(* ----------------------------------------------------------------- actions *)

Init ==
  /\ routes = AppRoutes
  /\ pydantic \in PydanticVersions
  /\ pending = {}
  /\ log = <<>>
  /\ nextId = 1

\* A client request arrives at the event loop.
Receive(q) ==
  /\ nextId <= MaxRequests
  /\ pending' = pending \cup
       {[id |-> nextId, method |-> q.method, path |-> q.path, body |-> q.body]}
  /\ nextId' = nextId + 1
  /\ UNCHANGED <<routes, pydantic, log>>

Answer(r, resp) ==
  /\ pending' = pending \ {r}
  /\ log' = Append(log, [req |-> r, resp |-> resp])
  /\ UNCHANGED <<routes, pydantic, nextId>>

\* GET /health
HandleHealth(r) ==
  /\ RouteFor(r.method, r.path) = "health"
  /\ Answer(r, health)

\* POST /convert with a body the ConvertRequest model accepts
HandleConvert(r) ==
  /\ RouteFor(r.method, r.path) = "convert"
  /\ ConvertRequest(r.body).ok
  /\ Answer(r, convert(ConvertRequest(r.body)))

\* POST /convert with a body the ConvertRequest model rejects
HandleConvertInvalid(r) ==
  /\ RouteFor(r.method, r.path) = "convert"
  /\ ~ConvertRequest(r.body).ok
  /\ Answer(r, ValidationErrorResponse(ConvertRequest(r.body).error))

\* a registered path with another method
HandleMethodNotAllowed(r) ==
  /\ RouteFor(r.method, r.path) = "405"
  /\ Answer(r, MethodNotAllowedResponse)

\* a path no route is registered for
HandleNotFound(r) ==
  /\ RouteFor(r.method, r.path) = "404"
  /\ Answer(r, NotFoundResponse)

Next ==
  \/ \E q \in Requests : Receive(q)
  \/ \E r \in pending : HandleHealth(r)
  \/ \E r \in pending : HandleConvert(r)
  \/ \E r \in pending : HandleConvertInvalid(r)
  \/ \E r \in pending : HandleMethodNotAllowed(r)
  \/ \E r \in pending : HandleNotFound(r)

Spec == Init /\ [][Next]_vars

\* The event loop answers every request it has received.
Handle == \E r \in pending :
  \/ HandleHealth(r) \/ HandleConvert(r) \/ HandleConvertInvalid(r)
  \/ HandleMethodNotAllowed(r) \/ HandleNotFound(r)

\* A client that polls GET /status/{id}.
Poll == Receive([method |-> "GET", path |-> "/status/j1", body |-> NoBody])

\* The event loop is fair to received requests, and the client keeps polling.
FairSpec == Spec /\ WF_vars(Handle) /\ WF_vars(Poll)

(* ------------------------------------------------------------ observations *)

IsHealth(e) == e.req.method = "GET" /\ e.req.path = "/health"
IsConvert(e) == e.req.method = "POST" /\ e.req.path = "/convert"
IsStatusPoll(e) == e.req.method = "GET" /\ e.req.path = "/status/j1"

\* A submission whose document_url is a JSON string.
ValidSubmission(e) == IsConvert(e) /\ e.req.body.document_url.t = "str"

\* A submission the service answered with success.
Accepted(e) == IsConvert(e) /\ e.resp.status \in {200, 202}

\* The accepted submissions answered before the i-th exchange.
AcceptedBefore(i) == Cardinality({j \in 1..(i - 1) : Accepted(log[j])})

SameRequest(q, r) ==
  q.method = r.method /\ q.path = r.path /\ q.body = r.body

(* ------------------------------------------------------------------ claims *)

\* C1: GET /health is always answered 200 with the body
\* {"status":"ok","service":"pipeline"}, whatever was handled before and
\* whatever is in flight, and the application's routes stay as constructed.
C1_HealthAlwaysOk ==
  /\ routes = AppRoutes
  /\ \A i \in DOMAIN log :
       IsHealth(log[i]) =>
         /\ log[i].resp.status = 200
         /\ log[i].resp.body = [status |-> "ok", service |-> "pipeline"]

\* C1 witness: a health request answered after a submission was answered,
\* while another request was still in flight.
C1_Witness ==
  /\ pending # {}
  /\ \E i, j \in DOMAIN log :
       i < j /\ Accepted(log[i]) /\ IsHealth(log[j]) /\ j = Len(log)

C9_EchoStateless ==
  /\ \A i \in DOMAIN log :
       ValidSubmission(log[i]) =>
         log[i].resp.body.document_url = log[i].req.body.document_url
  /\ \A i, j \in DOMAIN log :
       SameRequest(log[i].req, log[j].req) =>
         /\ log[i].resp.status = log[j].resp.status
         /\ DOMAIN log[i].resp.body = DOMAIN log[j].resp.body
         /\ \A k \in DOMAIN log[i].resp.body :
              log[i].resp.body[k] = log[j].resp.body[k]

\* C9 witness: two valid submissions with different document_urls were
\* answered, the one handled second having been sent first.
C9_Witness ==
  \E i, j \in DOMAIN log :
    /\ i < j
    /\ ValidSubmission(log[i])
    /\ ValidSubmission(log[j])
    /\ log[i].req.body.document_url # log[j].req.body.document_url
    /\ log[i].req.id > log[j].req.id

====
